---- MODULE Spec2Model ----
(***************************************************************************)
(* Validation / scoring orchestration of the sign-language game:           *)
(*   - ValidationGraph.run (consolidated variant, 3-agent serial variant   *)
(*     and 3-agent parallel variant) with its cost ledger and              *)
(*     deterministic scoring,                                              *)
(*   - normalizePracticeWord,                                              *)
(*   - BaseAgent.run as seen by the graphs (the result envelope),          *)
(*   - BaseAgent.run on the reply text (JSON extraction, parsing, schema), *)
(*   - AnnouncementGraph.getScenario and AnnouncementGraph.run,            *)
(*   - the recognition agent and POST recognize,                           *)
(*   - GamePipeline.runValidation around ValidationGraph.run,              *)
(*   - two POST validate requests served concurrently.                     *)
(*                                                                         *)
(* Numbers.  JavaScript numbers that may be fractional (matchPercentage,   *)
(* score) are held as integers counting 1/Scale of a point, so 87.5 is     *)
(* 175 when Scale = 2.  Costs are held in units of 10^-8 dollar, in which  *)
(* every price of the price table is a whole number.  Floating-point       *)
(* rounding error is not modelled: arithmetic is exact.                    *)
(*                                                                         *)
(* Nullable fields are sequences: <<>> is null, <<v>> is the value v.      *)
(* Strings that are inspected character by character are sequences of      *)
(* one-character strings.                                                  *)
(***************************************************************************)
EXTENDS Integers, Sequences, FiniteSets, TLC

\* Sub-units per percentage point in which fractional numbers are held.
Scale == 2

NULL == <<>>

Some(v) == <<v>>

IsNull(x) == x = <<>>

Val(x) == x[1]

Min(a, b) == IF a <= b THEN a ELSE b

Max(a, b) == IF a >= b THEN a ELSE b

\* A whole number n as a scaled number.
Whole(n) == n * Scale

IsWhole(x) == x % Scale = 0

(***************************************************************************)
(* normalizePracticeWord: lowercase, then keep only the characters a-z.    *)
(***************************************************************************)
UpperCaseLetters ==
  <<"A","B","C","D","E","F","G","H","I","J","K","L","M",
    "N","O","P","Q","R","S","T","U","V","W","X","Y","Z">>

LowerCaseLetters ==
  <<"a","b","c","d","e","f","g","h","i","j","k","l","m",
    "n","o","p","q","r","s","t","u","v","w","x","y","z">>

\* Characters outside ASCII stand as named code units: the Kelvin sign U+212A
\* lowercases to k, I with dot above U+0130 to i followed by the combining
\* dot U+0307 (two code units), E acute U+00C9 to e acute U+00E9.
lowerCaseOf_ToggleCase(ch) ==
  IF \E i \in 1..26 : UpperCaseLetters[i] = ch
  THEN <<LowerCaseLetters[CHOOSE i \in 1..26 : UpperCaseLetters[i] = ch]>>
  ELSE IF \E i \in 1..26 : LowerCaseLetters[i] = ch
  THEN <<UpperCaseLetters[CHOOSE i \in 1..26 : LowerCaseLetters[i] = ch]>>
  ELSE <<ch>>

\* String.prototype.toLowerCase on one code unit: the code units it becomes.
lowerCaseOf(ch) ==
  IF \E i \in 1..26 : UpperCaseLetters[i] = ch
  THEN <<LowerCaseLetters[CHOOSE i \in 1..26 : UpperCaseLetters[i] = ch]>>
  ELSE IF ch = "U+212A" THEN <<"k">>
  ELSE IF ch = "U+0130" THEN <<"i", "U+0307">>
  ELSE IF ch = "U+00C9" THEN <<"U+00E9">>
  ELSE <<ch>>

RECURSIVE toLowerCase(_)
toLowerCase(word) ==
  IF word = <<>> THEN <<>> ELSE lowerCaseOf(Head(word)) \o toLowerCase(Tail(word))

IsAtoZ(ch) == \E i \in 1..26 : LowerCaseLetters[i] = ch

normalizePracticeWord_KeepsDigits(word) ==
  SelectSeq(toLowerCase(word), LAMBDA ch : IsAtoZ(ch) \/ ch = "1")

\* word.toLowerCase().split('').filter(/[a-z]/.test).join('')
normalizePracticeWord(word) == SelectSeq(toLowerCase(word), IsAtoZ)

(***************************************************************************)
(* Math.round on the rational num/den (den > 0): the nearest integer,      *)
(* halves rounded towards +infinity.                                       *)
(***************************************************************************)
MathRound_Truncating(num, den) == num \div den

MathRound(num, den) == (2 * num + den) \div (2 * den)

(***************************************************************************)
(* ValidationGraph.computeDeterministicScore, lines 144-168.               *)
(* matchPercentage is scaled; durationMs is in milliseconds.               *)
(***************************************************************************)
MsPerSecond == 1000

speedScore_StrictBoundaries(durationMs) ==
  IF durationMs > 10 * MsPerSecond THEN 40
  ELSE IF durationMs > 5 * MsPerSecond THEN 60
  ELSE IF durationMs > 2 * MsPerSecond THEN 80
  ELSE 100

\* seconds = durationMs / 1000; seconds >= k  iff  durationMs >= k * 1000
speedScore(durationMs) ==
  IF durationMs >= 10 * MsPerSecond THEN 40
  ELSE IF durationMs >= 5 * MsPerSecond THEN 60
  ELSE IF durationMs >= 2 * MsPerSecond THEN 80
  ELSE 100

\* round(matchPercentage * 0.8 + 20) clamped to 30..100
clarityScore(matchPercentage) ==
  Min(100, Max(30, MathRound(8 * matchPercentage + 200 * Scale, 10 * Scale)))

computeDeterministicScore(validation, durationMs) ==
  LET accuracy == MathRound(validation.matchPercentage, Scale)
      speed    == speedScore(durationMs)
      clarity  == clarityScore(validation.matchPercentage)
      score    == MathRound(6 * accuracy + 2 * speed + 2 * clarity, 10)
  IN  [score     |-> Whole(score),
       breakdown |-> [accuracy |-> Whole(accuracy),
                      speed    |-> Whole(speed),
                      clarity  |-> Whole(clarity)]]

(***************************************************************************)
(* Cost model, src/lib/schemas/cost-tracking.ts.  Prices are in 10^-8       *)
(* dollar per token.  PriceInput and PriceOutput are those of the model    *)
(* the validation graph is constructed with (gemini-3-flash-preview):      *)
(* 0.5 / 1_000_000 and 3.0 / 1_000_000.                                    *)
(***************************************************************************)
PriceInput == 50

PriceOutput == 300

\* gemini-2.5-flash: 0.3 / 1_000_000 and 2.5 / 1_000_000
FlashPriceInput == 30

FlashPriceOutput == 250

\* the prices of a model that has no entry: 0.15 / 1_000_000 and 0.6 / 1_000_000
FallbackPriceInput == 15

FallbackPriceOutput == 60

GEMINI_3_FLASH == "gemini-3-flash-preview"

GEMINI_2_5_FLASH == "gemini-2.5-flash"

\* GEMINI_MODELS has no member GEMINI_2_5_FLASH_TTS: the expression is undefined.
GEMINI_2_5_FLASH_TTS == "undefined"

getModelPricing(model) ==
  CASE model = GEMINI_3_FLASH   -> [input |-> PriceInput, output |-> PriceOutput]
    [] model = GEMINI_2_5_FLASH -> [input |-> FlashPriceInput, output |-> FlashPriceOutput]
    [] OTHER -> [input |-> FallbackPriceInput, output |-> FallbackPriceOutput]

\* calculateCost of cost-tracking.ts, without cached tokens
calculateCostFor(inputTokens, outputTokens, model) ==
  inputTokens * getModelPricing(model).input + outputTokens * getModelPricing(model).output

\* client.calculateCost of the validation graph's client
calculateCost(inputTokens, outputTokens) ==
  calculateCostFor(inputTokens, outputTokens, GEMINI_3_FLASH)

(***************************************************************************)
(* The model client as BaseAgent.run sees it.  A reply is what             *)
(* client.generate does and what the parsing steps of run make of the      *)
(* text:                                                                   *)
(*   "throw"      generate rejects (transport, auth, ...)                  *)
(*   "noJson"     the text matches no {...}                                *)
(*   "badJson"    JSON.parse throws on the match                           *)
(*   "schemaFail" the parsed value is rejected by the agent's schema       *)
(*   "ok"         the parsed value is accepted; content is the data        *)
(* usage is null (token counts undefined) or the token counts.             *)
(***************************************************************************)
Usages == {NULL, Some([promptTokenCount |-> 120, candidatesTokenCount |-> 40])}

FailedReplies ==
  {[kind |-> "throw", usage |-> NULL, content |-> NULL]}
    \cup [kind : {"noJson", "badJson", "schemaFail"}, usage : Usages, content : {NULL}]

ClientReplies(contents) ==
  FailedReplies \cup [kind : {"ok"}, usage : Usages, content : {Some(c) : c \in contents}]

TransportError == "fetch failed"

\* response.usage?.promptTokenCount ?? 0 and its sibling
promptTokens(reply) == IF IsNull(reply.usage) THEN 0 ELSE Val(reply.usage).promptTokenCount

candidateTokens(reply) ==
  IF IsNull(reply.usage) THEN 0 ELSE Val(reply.usage).candidatesTokenCount

\* The metadata built after a completed call, base-agent.ts lines 77-88, by an
\* agent whose client was constructed with the given model.
callMetadataFor(reply, model) ==
  [inputTokens  |-> promptTokens(reply),
   outputTokens |-> candidateTokens(reply),
   cost         |-> calculateCostFor(promptTokens(reply), candidateTokens(reply), model)]

callMetadata(reply) ==
  [inputTokens  |-> promptTokens(reply),
   outputTokens |-> candidateTokens(reply),
   cost         |-> calculateCost(promptTokens(reply), candidateTokens(reply))]

\* The metadata of the catch block, base-agent.ts lines 167-175.
zeroMetadata == [inputTokens |-> 0, outputTokens |-> 0, cost |-> 0]

errorMessage(kind) ==
  CASE kind = "throw"      -> TransportError
    [] kind = "noJson"     -> "No JSON in response"
    [] kind = "badJson"    -> "Invalid JSON in response"
    [] kind = "schemaFail" -> "Schema validation failed"

\* BaseAgent.run with a client of the given model.
BaseAgentRunFor_SilentFailure(reply, model) ==
  IF reply.kind = "ok"
  THEN [ok |-> TRUE, content |-> reply.content, error |-> NULL,
        metadata |-> callMetadataFor(reply, model)]
  ELSE [ok |-> FALSE, content |-> NULL, error |-> NULL,
        metadata |-> IF reply.kind = "throw" THEN zeroMetadata
                     ELSE callMetadataFor(reply, model)]

BaseAgentRunFor(reply, model) ==
  IF reply.kind = "ok"
  THEN [ok |-> TRUE, content |-> reply.content, error |-> NULL,
        metadata |-> callMetadataFor(reply, model)]
  ELSE [ok |-> FALSE, content |-> NULL, error |-> Some(errorMessage(reply.kind)),
        metadata |-> IF reply.kind = "throw" THEN zeroMetadata
                     ELSE callMetadataFor(reply, model)]

\* BaseAgent.run: the envelope {ok, content, error?, metadata}.
BaseAgentRun(reply) ==
  IF reply.kind = "ok"
  THEN [ok |-> TRUE, content |-> reply.content, error |-> NULL,
        metadata |-> callMetadata(reply)]
  ELSE [ok |-> FALSE, content |-> NULL, error |-> Some(errorMessage(reply.kind)),
        metadata |-> IF reply.kind = "throw" THEN zeroMetadata ELSE callMetadata(reply)]

(***************************************************************************)
(* Schema-valid agent outputs (src/lib/schemas/agent-outputs.ts).          *)
(* matchPercentage and the scores are numbers in [0, 100], not necessarily *)
(* whole.                                                                  *)
(***************************************************************************)
MatchChoices == {0, Whole(30) - 1, Whole(30), Whole(87) + 1, Whole(100)}

ValidationOutputs == [isValid : BOOLEAN, matchPercentage : MatchChoices]

ScoringOutputs ==
  {[score |-> sc,
    breakdown |-> [accuracy |-> Whole(80), speed |-> Whole(60), clarity |-> Whole(70)]]
     : sc \in {Whole(74), Whole(74) + 1}}

FeedbackOutputs == {[feedback |-> "coaching"]}

\* The consolidated agent's payload: a validation object and a feedback object.
ValidationFeedbackOutputs ==
  [validation : ValidationOutputs, feedback : {[feedbackText |-> "coaching"]}]

(***************************************************************************)
(* The cost ledger state.costTracking: a JavaScript object, whose values   *)
(* are visited in insertion order.  A sequence of <<key, meta>> entries.   *)
(***************************************************************************)
JsonNull == [jsonNull |-> TRUE]

HasKey(ledger, key) == \E i \in 1..Len(ledger) : ledger[i].key = key

Lookup(ledger, key) == ledger[CHOOSE i \in 1..Len(ledger) : ledger[i].key = key].meta

ledgerSet_FreshLedger(ledger, key, meta) == <<[key |-> key, meta |-> meta]>>

\* state.costTracking[key] = meta
ledgerSet(ledger, key, meta) ==
  IF HasKey(ledger, key)
  THEN [i \in 1..Len(ledger) |->
          IF ledger[i].key = key THEN [key |-> key, meta |-> meta] ELSE ledger[i]]
  ELSE Append(ledger, [key |-> key, meta |-> meta])

RECURSIVE sumLedger(_, _, _)
\* The loop of aggregateCosts from entry i on; acc holds the running totals.
\* Reading .cost of a null entry throws a TypeError, leaving the totals so far.
sumLedger(ledger, i, acc) ==
  IF i > Len(ledger) THEN [threw |-> FALSE, totals |-> acc]
  ELSE LET m == ledger[i].meta IN
       IF m = JsonNull THEN [threw |-> TRUE, totals |-> acc]
       ELSE IF "cost" \in DOMAIN m
            THEN sumLedger(ledger, i + 1,
                   [cost         |-> acc.cost + m.cost,
                    inputTokens  |-> acc.inputTokens + m.inputTokens,
                    outputTokens |-> acc.outputTokens + m.outputTokens])
            ELSE sumLedger(ledger, i + 1, acc)

NullEntryError == "Cannot read properties of null (reading 'cost')"

\* ValidationGraph.aggregateCosts: [threw, message, state]
aggregateCosts(s) ==
  LET r == sumLedger(s.costTracking, 1, [cost |-> 0, inputTokens |-> 0, outputTokens |-> 0])
  IN  [threw   |-> r.threw,
       message |-> NullEntryError,
       state   |-> [s EXCEPT !.totalCost = r.totals.cost,
                             !.totalInputTokens = r.totals.inputTokens,
                             !.totalOutputTokens = r.totals.outputTokens]]

(***************************************************************************)
(* State.                                                                  *)
(*   variant  which ValidationGraph implementation runs                    *)
(*   pc       where run is: "start", awaiting an agent, or "done"          *)
(*   state    the GameSessionState object run mutates and returns          *)
(*   input    the session as it was handed to run                          *)
(*   locals   the envelopes run has received (its validationResult,        *)
(*            scoringResult and feedbackResult constants), null until set, *)
(*            the two promises of the parallel variant and the order in    *)
(*            which they resolved                                          *)
(*   calls    the agent invocations made so far, in order                  *)
(*   escaped  whether an exception propagated out of run                   *)
(*   fnArgs, fnResult   arguments and result of a pure function under      *)
(*            check: computeDeterministicScore, normalizePracticeWord      *)
(*   annInput, annScenario  AnnouncementGraph input and its scenario       *)
(*   ann      an AnnouncementGraph.run in progress: where it is, its local *)
(*            variables, the calls it has made, its result                 *)
(*   agent    a BaseAgent.run in progress: the client's behaviour, the     *)
(*            output directory, the log files written, its result          *)
(*   recog    a POST recognize request in progress: the request, the       *)
(*            recognition agent's envelope, the response                   *)
(*   pipe     a GamePipeline.runValidation in progress: where it is, the   *)
(*            status the graph returned, its result                        *)
(*   conc     two POST validate requests in progress at once: the session  *)
(*            objects on the heap, each request's position, the log files  *)
(***************************************************************************)
VARIABLES variant, pc, state, input, locals, calls, escaped,
          fnArgs, fnResult, annInput, annScenario, ann, agent, recog, pipe, conc

graphVars == <<variant, pc, state, input, locals, calls, escaped>>

scoreVars == <<fnArgs, fnResult>>

annVars == <<annInput, annScenario, ann>>

auxVars == <<agent, recog, pipe, conc>>

vars == <<variant, pc, state, input, locals, calls, escaped,
          fnArgs, fnResult, annInput, annScenario, ann, agent, recog, pipe, conc>>

Variants == {"consolidated", "serial", "parallel"}

validationKey(v) == IF v = "consolidated" THEN "validation_feedback_0" ELSE "validation_0"

validationAgentName(v) ==
  IF v = "consolidated" THEN "validation_feedback_agent" ELSE "validation_agent"

(***************************************************************************)
(* Sessions handed to run.  POST validate accepts any body the session     *)
(* schema accepts; the session hook submits a session whose ledger may     *)
(* hold the streaming estimate live_stream_0, and may submit again a       *)
(* session it has already marked complete.                                 *)
(***************************************************************************)
streamEstimate ==
  [sessionDurationMs |-> 5000, estimatedInputTokens |-> 1290,
   estimatedOutputTokens |-> 10, estimatedCost |-> 10000]

InputLedgers ==
  { <<>>,
    << [key |-> "live_stream_0", meta |-> streamEstimate] >>,
    << [key |-> "live_stream_0", meta |-> JsonNull] >>,
    << [key |-> "client_note", meta |-> [model |-> "none"]] >>,
    << [key |-> "validation_feedback_0",
        meta |-> [inputTokens |-> 7, outputTokens |-> 3, cost |-> 1250]],
       [key |-> "live_stream_0", meta |-> streamEstimate] >> }

InputTranscriptions == {NULL, Some(<<>>), Some(<<"H", " ", "E">>)}

InputDurations == {1500, 5000, 12000}

\* <<status, validationResult, scoringResult, feedbackResult, score, error>>
\* The last two are sessions the hook has updated from an earlier response.
InputProgress ==
  { <<"recognizing", NULL, NULL, NULL, NULL, NULL>>,
    <<"validating", NULL, NULL, NULL, NULL, NULL>>,
    <<"complete", Some([isValid |-> TRUE, matchPercentage |-> Whole(100)]),
      NULL, NULL, Some(Whole(100)), NULL>>,
    <<"error", NULL, NULL, NULL, NULL, Some("Validation failed")>> }

InputSessions ==
  { [sessionId          |-> "s1",
     expectedWord       |-> <<"H", "e">>,
     level              |-> 1,
     status             |-> p[1],
     finalTranscription |-> t,
     durationMs         |-> d,
     validationResult   |-> p[2],
     scoringResult      |-> p[3],
     feedbackResult     |-> p[4],
     score              |-> p[5],
     costTracking       |-> l,
     totalCost          |-> 0,
     totalInputTokens   |-> 0,
     totalOutputTokens  |-> 0,
     error              |-> p[6]]
    : p \in InputProgress, t \in InputTranscriptions, d \in InputDurations,
      l \in InputLedgers }

\* scoringPromise and feedbackPromise are the two promises handed to Promise.all
\* by the parallel variant: null while pending, the envelope once resolved.
noLocals ==
  [validationResult |-> NULL, scoringResult |-> NULL, feedbackResult |-> NULL,
   scoringPromise |-> NULL, feedbackPromise |-> NULL, settled |-> <<>>]

(***************************************************************************)
(* Pieces of ValidationGraph.run.                                          *)
(***************************************************************************)
isFalsy_NullOnly(transcription) == IsNull(transcription)

\* !state.finalTranscription: null and the empty string are both falsy
isFalsy(transcription) == IsNull(transcription) \/ Val(transcription) = <<>>

recordCost_OnlyIfOk(s, key, env) ==
  IF env.ok THEN [s EXCEPT !.costTracking = ledgerSet(@, key, env.metadata)] ELSE s

\* state.costTracking[key] = result.metadata
recordCost(s, key, env) == [s EXCEPT !.costTracking = ledgerSet(@, key, env.metadata)]

\* state.error = ...; state.status = 'error'
failWith(s, message) == [s EXCEPT !.error = Some(message), !.status = "error"]

tryCatch_Rethrow(outcome) ==
  [state |-> outcome.state, escaped |-> outcome.threw]

\* The try/catch around the steps of run: an exception becomes the error state.
tryCatch(outcome) ==
  [state   |-> IF outcome.threw THEN failWith(outcome.state, outcome.message)
               ELSE outcome.state,
   escaped |-> FALSE]

agentCall_RawWords(name, key, s) ==
  [agent         |-> name,
   key           |-> key,
   expectedWord  |-> s.expectedWord,
   transcription |-> Val(s.finalTranscription)]

\* An agent invocation: the words it is given are the normalized ones.
agentCall(name, key, s) ==
  [agent         |-> name,
   key           |-> key,
   expectedWord  |-> normalizePracticeWord(s.expectedWord),
   transcription |-> normalizePracticeWord(Val(s.finalTranscription))]

scoreFallback_Zero(validation) == Whole(0)

\* state.score = validationResult.content.matchPercentage
scoreFallback(validation) == validation.matchPercentage

\* Consolidated variant, lines 95-118: results, deterministic score, complete, totals.
completeConsolidated(s, content) ==
  LET scoringResult == computeDeterministicScore(content.validation, s.durationMs)
  IN  aggregateCosts([s EXCEPT !.validationResult = Some(content.validation),
                               !.feedbackResult   = Some(content.feedback),
                               !.scoringResult    = Some(scoringResult),
                               !.score            = Some(scoringResult.score),
                               !.status           = "complete"])

\* Consolidated variant, lines 88-136: failure return, or the steps inside the try.
afterValidationFeedback(s, env) ==
  IF ~env.ok \/ IsNull(env.content)
  THEN [state |-> failWith(s, Val(env.error)), escaped |-> FALSE]
  ELSE tryCatch(completeConsolidated(s, Val(env.content)))

(***************************************************************************)
(* Actions of ValidationGraph.run: one per stretch of code between awaits. *)
(***************************************************************************)
\* Lines 34-82: the guard, normalization, status = validating, the first call.
Start ==
  /\ pc = "start"
  /\ IF isFalsy(state.finalTranscription)
     THEN /\ state' = failWith(state, "No transcription to validate")
          /\ pc' = "done"
          /\ calls' = calls
     ELSE /\ state' = [state EXCEPT !.status = "validating"]
          /\ pc' = "awaitValidation"
          /\ calls' = Append(calls,
                        agentCall(validationAgentName(variant), validationKey(variant), state))
  /\ UNCHANGED <<variant, input, locals, escaped, scoreVars, annVars, auxVars>>

\* Consolidated variant, lines 83-138: the agent has returned.
ValidationFeedbackReturns ==
  /\ pc = "awaitValidation"
  /\ variant = "consolidated"
  /\ \E reply \in ClientReplies(ValidationFeedbackOutputs) :
       LET env == BaseAgentRun(reply)
           s1  == recordCost(state, "validation_feedback_0", env)
           out == afterValidationFeedback(s1, env)
       IN  /\ state' = out.state
           /\ escaped' = out.escaped
           /\ locals' = [locals EXCEPT !.validationResult = Some(env)]
  /\ pc' = "done"
  /\ UNCHANGED <<variant, input, calls, scoreVars, annVars, auxVars>>

\* Serial variant, lines 292-323: the validation agent has returned.
ValidationReturns ==
  /\ pc = "awaitValidation"
  /\ variant = "serial"
  /\ \E reply \in ClientReplies(ValidationOutputs) :
       LET env == BaseAgentRun(reply)
           s1  == recordCost(state, "validation_0", env)
       IN  /\ locals' = [locals EXCEPT !.validationResult = Some(env)]
           /\ IF ~env.ok \/ IsNull(env.content)
              THEN /\ state' = failWith(s1, Val(env.error))
                   /\ pc' = "done"
                   /\ calls' = calls
              ELSE /\ state' = [s1 EXCEPT !.validationResult = env.content]
                   /\ pc' = "awaitScoring"
                   /\ calls' = Append(calls, agentCall("scoring_agent", "scoring_0", state))
  /\ UNCHANGED <<variant, input, escaped, scoreVars, annVars, auxVars>>

\* Serial variant, lines 325-354: the scoring agent has returned.
ScoringReturns ==
  /\ pc = "awaitScoring"
  /\ \E reply \in ClientReplies(ScoringOutputs) :
       LET env == BaseAgentRun(reply)
           s1  == recordCost(state, "scoring_0", env)
           validation == Val(Val(locals.validationResult).content)
       IN  /\ locals' = [locals EXCEPT !.scoringResult = Some(env)]
           /\ state' = IF env.ok /\ ~IsNull(env.content)
                       THEN [s1 EXCEPT !.scoringResult = env.content,
                                       !.score = Some(Val(env.content).score)]
                       ELSE [s1 EXCEPT !.score = Some(scoreFallback(validation))]
  /\ pc' = "awaitFeedback"
  /\ calls' = Append(calls, agentCall("feedback_agent", "feedback_0", state))
  /\ UNCHANGED <<variant, input, escaped, scoreVars, annVars, auxVars>>

\* Serial variant, lines 356-381: the feedback agent has returned.
FeedbackReturns ==
  /\ pc = "awaitFeedback"
  /\ \E reply \in ClientReplies(FeedbackOutputs) :
       LET env == BaseAgentRun(reply)
           s1  == recordCost(state, "feedback_0", env)
           s2  == IF env.ok /\ ~IsNull(env.content)
                  THEN [s1 EXCEPT !.feedbackResult = env.content]
                  ELSE s1
           out == tryCatch(aggregateCosts([s2 EXCEPT !.status = "complete"]))
       IN  /\ locals' = [locals EXCEPT !.feedbackResult = Some(env)]
           /\ state' = out.state
           /\ escaped' = out.escaped
  /\ pc' = "done"
  /\ UNCHANGED <<variant, input, calls, scoreVars, annVars, auxVars>>

(***************************************************************************)
(* Parallel variant (announcement-graph.ts 224-457): after validation the  *)
(* scoring and feedback agents run concurrently under Promise.all.         *)
(***************************************************************************)
promiseAll_SettlesEarly(scoringPromise, feedbackPromise) ==
  LET pending == BaseAgentRun([kind |-> "throw", usage |-> NULL, content |-> NULL])
  IN  IF IsNull(scoringPromise) /\ IsNull(feedbackPromise) THEN NULL
      ELSE Some(<< IF IsNull(scoringPromise) THEN pending ELSE Val(scoringPromise),
                   IF IsNull(feedbackPromise) THEN pending ELSE Val(feedbackPromise) >>)

\* Promise.all over two promises that never reject: pending until both have
\* resolved, then the two results in array order.
promiseAll(scoringPromise, feedbackPromise) ==
  IF IsNull(scoringPromise) \/ IsNull(feedbackPromise) THEN NULL
  ELSE Some(<<Val(scoringPromise), Val(feedbackPromise)>>)

\* Lines 366-395: both results are processed, then complete and the totals.
processResults(s, validation, scoringEnv, feedbackEnv) ==
  LET s1 == recordCost(s, "scoring_0", scoringEnv)
      s2 == IF scoringEnv.ok /\ ~IsNull(scoringEnv.content)
            THEN [s1 EXCEPT !.scoringResult = scoringEnv.content,
                            !.score = Some(Val(scoringEnv.content).score)]
            ELSE [s1 EXCEPT !.score = Some(scoreFallback(validation))]
      s3 == recordCost(s2, "feedback_0", feedbackEnv)
      s4 == IF feedbackEnv.ok /\ ~IsNull(feedbackEnv.content)
            THEN [s3 EXCEPT !.feedbackResult = feedbackEnv.content]
            ELSE s3
  IN  aggregateCosts([s4 EXCEPT !.status = "complete"])

\* Lines 292-364: the validation agent has returned; on success both calls start.
ParallelValidationReturns ==
  /\ pc = "awaitValidation"
  /\ variant = "parallel"
  /\ \E reply \in ClientReplies(ValidationOutputs) :
       LET env == BaseAgentRun(reply)
           s1  == recordCost(state, "validation_0", env)
       IN  /\ locals' = [locals EXCEPT !.validationResult = Some(env)]
           /\ IF ~env.ok \/ IsNull(env.content)
              THEN /\ state' = failWith(s1, Val(env.error))
                   /\ pc' = "done"
                   /\ calls' = calls
              ELSE /\ state' = [s1 EXCEPT !.validationResult = env.content]
                   /\ pc' = "awaitBoth"
                   /\ calls' = calls \o << agentCall("scoring_agent", "scoring_0", state),
                                          agentCall("feedback_agent", "feedback_0", state) >>
  /\ UNCHANGED <<variant, input, escaped, scoreVars, annVars, auxVars>>

\* The scoring agent's run resolves its promise; run is still suspended.
ScoringSettles ==
  /\ pc = "awaitBoth"
  /\ IsNull(locals.scoringPromise)
  /\ \E reply \in ClientReplies(ScoringOutputs) :
       locals' = [locals EXCEPT !.scoringPromise = Some(BaseAgentRun(reply)),
                                !.settled = Append(@, "scoring")]
  /\ UNCHANGED <<variant, pc, state, input, calls, escaped, scoreVars, annVars, auxVars>>

\* The feedback agent's run resolves its promise; run is still suspended.
FeedbackSettles ==
  /\ pc = "awaitBoth"
  /\ IsNull(locals.feedbackPromise)
  /\ \E reply \in ClientReplies(FeedbackOutputs) :
       locals' = [locals EXCEPT !.feedbackPromise = Some(BaseAgentRun(reply)),
                                !.settled = Append(@, "feedback")]
  /\ UNCHANGED <<variant, pc, state, input, calls, escaped, scoreVars, annVars, auxVars>>

\* Lines 339-415: Promise.all has resolved and run resumes with both results.
ParallelJoin ==
  /\ pc = "awaitBoth"
  /\ ~IsNull(promiseAll(locals.scoringPromise, locals.feedbackPromise))
  /\ LET results    == Val(promiseAll(locals.scoringPromise, locals.feedbackPromise))
         validation == Val(Val(locals.validationResult).content)
         out        == tryCatch(processResults(state, validation, results[1], results[2]))
     IN  /\ locals' = [locals EXCEPT !.scoringResult = Some(results[1]),
                                     !.feedbackResult = Some(results[2])]
         /\ state' = out.state
         /\ escaped' = out.escaped
  /\ pc' = "done"
  /\ UNCHANGED <<variant, input, calls, scoreVars, annVars, auxVars>>

idleScore == fnArgs = NULL /\ fnResult = NULL

idleAnn == annInput = NULL /\ annScenario = NULL /\ ann = NULL

idleAux == agent = NULL /\ recog = NULL /\ pipe = NULL /\ conc = NULL

Init ==
  /\ variant \in Variants
  /\ pc = "start"
  /\ state \in InputSessions
  /\ input = state
  /\ locals = noLocals
  /\ calls = <<>>
  /\ escaped = FALSE
  /\ idleScore
  /\ idleAnn
  /\ idleAux

Next ==
  \/ Start
  \/ ValidationFeedbackReturns
  \/ ValidationReturns
  \/ ScoringReturns
  \/ FeedbackReturns
  \/ ParallelValidationReturns
  \/ ScoringSettles
  \/ FeedbackSettles
  \/ ParallelJoin

Spec == Init /\ [][Next]_vars

(***************************************************************************)
(* computeDeterministicScore on its own: every schema-valid                *)
(* matchPercentage (0..100 in steps of 1/Scale) with durations around      *)
(* each threshold of the speed step function.                              *)
(***************************************************************************)
ScoreDurations == {0, 1, 1500, 1999, 2000, 2001, 4999, 5000, 5001, 9999, 10000, 10001, 60000}

idleGraph ==
  /\ variant = "consolidated"
  /\ pc = "idle"
  /\ state = NULL
  /\ input = NULL
  /\ locals = noLocals
  /\ calls = <<>>
  /\ escaped = FALSE

InitScore ==
  /\ idleGraph
  /\ idleAnn
  /\ idleAux
  /\ fnArgs \in {Some([validation |-> [isValid |-> TRUE, matchPercentage |-> m],
                       durationMs |-> d]) : m \in 0..Whole(100), d \in ScoreDurations}
  /\ fnResult = NULL

ComputeScore ==
  /\ ~IsNull(fnArgs)
  /\ IsNull(fnResult)
  /\ fnResult' = Some(computeDeterministicScore(Val(fnArgs).validation, Val(fnArgs).durationMs))
  /\ UNCHANGED <<fnArgs, graphVars, annVars, auxVars>>

NextScore == ComputeScore

SpecScore == InitScore /\ [][NextScore]_vars

(***************************************************************************)
(* normalizePracticeWord as run applies it (lines 48-51): fnArgs holds the *)
(* session's two words, fnResult the successive normalizations.            *)
(***************************************************************************)
MaxWordLen == 3

NormalizeChars == {"A", "z", " ", "1", "U+212A", "U+0130", "U+00C9"}

RECURSIVE WordsUpTo(_)
WordsUpTo(n) ==
  IF n = 0 THEN {<<>>}
  ELSE LET shorter == WordsUpTo(n - 1)
       IN  shorter \cup {Append(w, ch) : w \in shorter, ch \in NormalizeChars}

TaiSeng == <<"T", "a", "i", " ", "S", "e", "n", "g">>

NormalizeExpected == {TaiSeng, <<"A", "z">>, <<"U+212A", "1", "U+0130">>}

NormalizeTranscriptions == WordsUpTo(MaxWordLen) \cup {<<"t", "a", "i", "s", "e", "n", "g">>}

normalizeBoth(words) ==
  [expectedWord       |-> normalizePracticeWord(words.expectedWord),
   finalTranscription |-> normalizePracticeWord(words.finalTranscription)]

InitNormalize ==
  /\ idleGraph
  /\ idleAnn
  /\ idleAux
  /\ fnArgs \in {Some([expectedWord |-> e, finalTranscription |-> w])
                   : e \in NormalizeExpected, w \in NormalizeTranscriptions}
  /\ fnResult = <<>>

\* Lines 50-51: both words of the session are normalized.
Normalize ==
  /\ ~IsNull(fnArgs)
  /\ Len(fnResult) = 0
  /\ fnResult' = <<normalizeBoth(Val(fnArgs))>>
  /\ UNCHANGED <<fnArgs, graphVars, annVars, auxVars>>

\* The normalized words are normalized once more (a run on words already normalized).
NormalizeAgain ==
  /\ Len(fnResult) = 1
  /\ fnResult' = Append(fnResult, normalizeBoth(fnResult[1]))
  /\ UNCHANGED <<fnArgs, graphVars, annVars, auxVars>>

NextNormalize == Normalize \/ NormalizeAgain

SpecNormalize == InitNormalize /\ [][NextNormalize]_vars

(***************************************************************************)
(* AnnouncementGraph.getScenario, src/lib/graph/announcement-graph.ts      *)
(* lines 107-118.  matchPct is scaled.                                     *)
(***************************************************************************)
includes(str, ch) == \E i \in 1..Len(str) : str[i] = ch

getScenario_CrashUpTo30(transcription, matchPct) ==
  IF includes(transcription, "?") \/ matchPct <= Whole(30) THEN "crash"
  ELSE IF matchPct >= Whole(100) THEN "safe"
  ELSE "delayed"

getScenario_SafeBandFirst(transcription, matchPct) ==
  IF matchPct >= Whole(100) THEN "safe"
  ELSE IF includes(transcription, "?") \/ matchPct < Whole(30) THEN "crash"
  ELSE "delayed"

getScenario(transcription, matchPct) ==
  IF includes(transcription, "?") \/ matchPct < Whole(30) THEN "crash"
  ELSE IF matchPct >= Whole(100) THEN "safe"
  ELSE "delayed"

AnnTranscriptions == {<<>>, <<"B", "Y", "S">>, <<"B", "?", "S">>, <<"?">>}

InitScenario ==
  /\ idleGraph
  /\ idleScore
  /\ idleAux
  /\ annInput \in {Some([target |-> "Bishan", transcription |-> t, matchPercentage |-> m])
                     : t \in AnnTranscriptions, m \in 0..Whole(100)}
  /\ annScenario = NULL
  /\ ann = NULL

\* AnnouncementGraph.run line 131
Classify ==
  /\ ~IsNull(annInput)
  /\ IsNull(annScenario)
  /\ annScenario' = Some(getScenario(Val(annInput).transcription, Val(annInput).matchPercentage))
  /\ UNCHANGED <<annInput, ann, graphVars, scoreVars, auxVars>>

NextScenario == Classify

SpecScenario == InitScenario /\ [][NextScenario]_vars

(***************************************************************************)
(* AnnouncementGraph.run, src/lib/graph/announcement-graph.ts lines        *)
(* 123-221.  The prompt is held as the template chosen and the text        *)
(* interpolated into it.  generateAudio resolves to {audioBase64, usage?}  *)
(* or rejects.                                                             *)
(***************************************************************************)
PhoneticOutputs == {[phonetic |-> <<"B", "e", "e">>, reasoning |-> "syllables"]}

AudioUsages == {NULL, Some([promptTokenCount |-> 210, candidatesTokenCount |-> 900])}

AudioReplies ==
  {[kind |-> "throw", usage |-> NULL, audioBase64 |-> NULL]}
    \cup [kind : {"ok"}, usage : AudioUsages, audioBase64 : {Some("UklGRg")}]

AnnMatches == MatchChoices \cup {Whole(60), Whole(99) + 1}

annStartLocals ==
  [pc |-> "start", prompt |-> NULL, phonetic |-> NULL, message |-> NULL,
   phoneticCost |-> 0, phoneticInputTokens |-> 0, phoneticOutputTokens |-> 0,
   phoneticResult |-> NULL, calls |-> <<>>, output |-> NULL, escaped |-> FALSE]

\* Lines 158-167: what run takes from the phonetic agent's envelope.
phoneticOutcome(env, transcription) ==
  IF env.ok /\ ~IsNull(env.content)
  THEN [phonetic     |-> Val(env.content).phonetic,
        cost         |-> env.metadata.cost,
        inputTokens  |-> env.metadata.inputTokens,
        outputTokens |-> env.metadata.outputTokens]
  ELSE [phonetic |-> transcription, cost |-> 0, inputTokens |-> 0, outputTokens |-> 0]

needsPhonetic_Always(scenario) == scenario \in {"crash", "delayed", "safe"}

\* The switch of lines 142-177: only case 'delayed' calls the phonetic agent.
needsPhonetic(scenario) == scenario = "delayed"

\* Lines 184-220: the result built from the audio reply.
buildOutput(a, scenario, reply) ==
  LET ttsInputTokens  == promptTokens(reply)
      ttsOutputTokens == candidateTokens(reply)
      ttsCost   == calculateCostFor(ttsInputTokens, ttsOutputTokens, GEMINI_2_5_FLASH_TTS)
      totalCost == a.phoneticCost + ttsCost
  IN  [scenario    |-> scenario,
       message     |-> Val(a.message),
       phonetic    |-> a.phonetic,
       audioBase64 |-> Val(reply.audioBase64),
       metrics     |->
         [ttsCost |-> ttsCost, ttsInputTokens |-> ttsInputTokens,
          ttsOutputTokens |-> ttsOutputTokens, totalCost |-> totalCost,
          phoneticCost |-> IF scenario = "delayed" THEN Some(a.phoneticCost) ELSE NULL,
          phoneticInputTokens |->
            IF scenario = "delayed" THEN Some(a.phoneticInputTokens) ELSE NULL,
          phoneticOutputTokens |->
            IF scenario = "delayed" THEN Some(a.phoneticOutputTokens) ELSE NULL]]

\* Lines 124-156 / 182: classify, then the first call of the run.
AnnStart ==
  /\ ~IsNull(ann)
  /\ ann.pc = "start"
  /\ LET in == Val(annInput)
         scenario == getScenario(in.transcription, in.matchPercentage)
     IN  /\ annScenario' = Some(scenario)
         /\ ann' =
              IF needsPhonetic(scenario)
              THEN [ann EXCEPT !.pc = "awaitPhonetic",
                               !.calls = Append(@, "phonetic_agent")]
              ELSE [ann EXCEPT
                      !.pc = "awaitAudio",
                      !.prompt = Some(IF scenario = "safe" THEN <<"SAFE_PROMPT", in.target>>
                                      ELSE <<"CRASH_PROMPT">>),
                      !.message = Some(IF scenario = "safe"
                                       THEN <<"Steady lah! Arrived safely at", in.target>>
                                       ELSE <<"Train crash! Cannot even sign properly!">>),
                      !.calls = Append(@, "generateAudio")]
  /\ UNCHANGED <<annInput, graphVars, scoreVars, auxVars>>

\* Lines 151-182: the phonetic agent has returned; the audio call is made.
PhoneticReturns ==
  /\ ~IsNull(ann)
  /\ ann.pc = "awaitPhonetic"
  /\ \E reply \in ClientReplies(PhoneticOutputs) :
       LET env == BaseAgentRunFor(reply, GEMINI_2_5_FLASH)
           o   == phoneticOutcome(env, Val(annInput).transcription)
       IN  ann' = [ann EXCEPT
                     !.pc = "awaitAudio",
                     !.phoneticResult = Some(env),
                     !.phonetic = Some(o.phonetic),
                     !.phoneticCost = o.cost,
                     !.phoneticInputTokens = o.inputTokens,
                     !.phoneticOutputTokens = o.outputTokens,
                     !.prompt = Some(<<"DELAYED_PROMPT", o.phonetic>>),
                     !.message = Some(<<"Arrived late at", o.phonetic, "Bo bian.">>),
                     !.calls = Append(@, "generateAudio")]
  /\ UNCHANGED <<annInput, annScenario, graphVars, scoreVars, auxVars>>

\* run has no try block: an exception raised at line 182 leaves run.
annCatch(a) == [a EXCEPT !.pc = "done", !.escaped = TRUE]

\* Lines 182-220: generateAudio has settled.
AudioReturns ==
  /\ ~IsNull(ann)
  /\ ann.pc = "awaitAudio"
  /\ \E reply \in AudioReplies :
       ann' = IF reply.kind = "throw"
              THEN annCatch(ann)
              ELSE [ann EXCEPT !.pc = "done",
                               !.output = Some(buildOutput(ann, Val(annScenario), reply))]
  /\ UNCHANGED <<annInput, annScenario, graphVars, scoreVars, auxVars>>

InitAnnounce ==
  /\ idleGraph
  /\ idleScore
  /\ idleAux
  /\ annInput \in {Some([target |-> "Bishan", transcription |-> t, matchPercentage |-> m])
                     : t \in AnnTranscriptions, m \in AnnMatches}
  /\ annScenario = NULL
  /\ ann = annStartLocals

NextAnnounce ==
  \/ AnnStart
  \/ PhoneticReturns
  \/ AudioReturns

SpecAnnounce == InitAnnounce /\ [][NextAnnounce]_vars

(***************************************************************************)
(* BaseAgent.run on the reply text, src/lib/agents/base-agent.ts lines     *)
(* 52-188.  The text is a sequence of tokens:                              *)
(*   "{" "}"  the brace characters                                         *)
(*   "m"      a member with a scalar value, such as "phonetic":"Bee"       *)
(*   "n"      the key and colon of a member whose value is the object that *)
(*            follows                                                      *)
(*   "x"      any other text (prose, markdown fences)                      *)
(* The separators between members are left out.  The regular expression of *)
(* line 92 tells only braces from other characters.                        *)
(***************************************************************************)
MaxTextLen == 5

TextTokens == {"{", "}", "m", "n", "x"}

ReplyTexts == UNION {[1..n -> TextTokens] : n \in 0..MaxTextLen}

Positions(text, ch) == {i \in 1..Len(text) : text[i] = ch}

SetMin(S) == CHOOSE x \in S : \A y \in S : x <= y

SetMax(S) == CHOOSE x \in S : \A y \in S : x >= y

\* text.match(/\{[\s\S]*\}/): from the first "{" that has a "}" after it to the
\* last "}" of the text; null when there is none.
jsonMatch(text) ==
  LET opens  == Positions(text, "{")
      closes == Positions(text, "}")
  IN  IF opens = {} \/ closes = {} \/ SetMax(closes) < SetMin(opens) THEN NULL
      ELSE Some(SubSeq(text, SetMin(opens), SetMax(closes)))

RECURSIVE parseObject(_, _)
RECURSIVE parseMembers(_, _)
\* The JSON grammar from position i: the position after the object that starts
\* at i, or 0 when no object starts there.
parseObject(t, i) ==
  IF i <= Len(t) /\ t[i] = "{" THEN parseMembers(t, i + 1) ELSE 0

parseMembers(t, i) ==
  IF i > Len(t) THEN 0
  ELSE IF t[i] = "}" THEN i + 1
  ELSE IF t[i] = "m" THEN parseMembers(t, i + 1)
  ELSE IF t[i] = "n"
       THEN LET j == parseObject(t, i + 1) IN IF j = 0 THEN 0 ELSE parseMembers(t, j)
  ELSE 0

\* JSON.parse: the whole string must be one value; null stands for SyntaxError.
JSONparse(t) == IF parseObject(t, 1) = Len(t) + 1 THEN Some(t) ELSE NULL

\* The nesting depth at which the token at position i stands.
depthAt(t, i) ==
  Cardinality({j \in 1..(i - 1) : t[j] = "{"}) - Cardinality({j \in 1..(i - 1) : t[j] = "}"})

\* schema.safeParse: the object must have the required scalar member.
safeParse(obj) == \E i \in 1..Len(obj) : obj[i] = "m" /\ depthAt(obj, i) = 1

\* Lines 91-143: what the parsing steps make of the text.
replyOf(text, usage) ==
  LET match == jsonMatch(text) IN
  IF IsNull(match) THEN [kind |-> "noJson", usage |-> usage, content |-> NULL]
  ELSE IF IsNull(JSONparse(Val(match)))
       THEN [kind |-> "badJson", usage |-> usage, content |-> NULL]
  ELSE IF ~safeParse(Val(match))
       THEN [kind |-> "schemaFail", usage |-> usage, content |-> NULL]
  ELSE [kind |-> "ok", usage |-> usage, content |-> JSONparse(Val(match))]

\* What client.generate does: rejects, or resolves to a text and a usage.
ClientBehaviours ==
  {[kind |-> "throw", text |-> <<>>, usage |-> NULL]}
    \cup [kind : {"text"}, text : ReplyTexts, usage : Usages]

OutputDirs == {NULL, Some("logs")}

\* saveInputLog, saveOutputLog, saveErrorLog: each catches what fs throws.
saveLog(logs, outputDir, fsFails, name) ==
  IF IsNull(outputDir) \/ fsFails THEN logs ELSE Append(logs, name)

logName(kind) == IF kind = "ok" THEN "output" ELSE "error"

agentTry_NoCatch(behaviour, model) ==
  IF behaviour.kind = "throw"
  THEN [result |-> NULL, escaped |-> TRUE]
  ELSE [result  |-> Some(BaseAgentRunFor(replyOf(behaviour.text, behaviour.usage), model)),
        escaped |-> FALSE]

agentTry_FreeFailures(behaviour, model) ==
  LET env == BaseAgentRunFor(
               IF behaviour.kind = "throw"
               THEN [kind |-> "throw", usage |-> NULL, content |-> NULL]
               ELSE replyOf(behaviour.text, behaviour.usage), model)
  IN  [result  |-> Some(IF env.ok THEN env ELSE [env EXCEPT !.metadata = zeroMetadata]),
       escaped |-> FALSE]

\* The try/catch of lines 71-187 around the call and the parsing steps.
agentTry(behaviour, model) ==
  [result  |-> Some(BaseAgentRunFor(
                      IF behaviour.kind = "throw"
                      THEN [kind |-> "throw", usage |-> NULL, content |-> NULL]
                      ELSE replyOf(behaviour.text, behaviour.usage), model)),
   escaped |-> FALSE]

\* Lines 58-73: the messages, the input log, the call.
AgentStart ==
  /\ ~IsNull(agent)
  /\ agent.pc = "start"
  /\ agent' = [agent EXCEPT
                 !.pc = "awaitGenerate",
                 !.logs = saveLog(@, agent.outputDir, agent.fsFails, "input")]
  /\ UNCHANGED <<graphVars, scoreVars, annVars, recog, pipe, conc>>

\* Lines 73-187: client.generate has settled.
GenerateSettles ==
  /\ ~IsNull(agent)
  /\ agent.pc = "awaitGenerate"
  /\ LET out == agentTry(agent.client, GEMINI_3_FLASH)
     IN  agent' = [agent EXCEPT
                     !.pc = "done",
                     !.result = out.result,
                     !.escaped = out.escaped,
                     !.logs = IF out.escaped THEN @
                              ELSE saveLog(@, agent.outputDir, agent.fsFails,
                                           logName(IF Val(out.result).ok THEN "ok" ELSE "error"))]
  /\ UNCHANGED <<graphVars, scoreVars, annVars, recog, pipe, conc>>

InitAgent ==
  /\ idleGraph
  /\ idleScore
  /\ idleAnn
  /\ agent \in [pc : {"start"}, client : ClientBehaviours, outputDir : OutputDirs,
                 fsFails : BOOLEAN, logs : {<<>>}, result : {NULL}, escaped : {FALSE}]
  /\ recog = NULL
  /\ pipe = NULL
  /\ conc = NULL

NextAgent ==
  \/ AgentStart
  \/ GenerateSettles

SpecAgent == InitAgent /\ [][NextAgent]_vars

(***************************************************************************)
(* The recognition agent (src/unnamed/part_020) and POST recognize         *)
(* (src/app/api/game/recognize/route.ts lines 172-294).  The letter of a   *)
(* parsed reply is null (no letter member, or not a string) or a string,   *)
(* held as its characters.                                                 *)
(***************************************************************************)
UpperSet == {UpperCaseLetters[i] : i \in 1..26}

LowerSet == {LowerCaseLetters[i] : i \in 1..26}

ReplyLetters ==
  {NULL, Some(<<>>), Some(<<"A", "B">>)}
    \cup {Some(<<ch>>) : ch \in UpperSet \cup LowerSet \cup {"?", "7", "!"}}

\* z.string().length(1)
RecognitionOutputSchema(letter) == ~IsNull(letter) /\ Len(Val(letter)) = 1

RecognitionReplies ==
  {r \in FailedReplies : r.kind # "schemaFail"}
    \cup [kind : {"parsed"}, usage : Usages, content : ReplyLetters]

\* RecognitionAgent.run, part_020 lines 107-249.
RecognitionAgentRun(reply) ==
  BaseAgentRunFor(
    IF reply.kind # "parsed" THEN reply
    ELSE IF RecognitionOutputSchema(reply.content)
         THEN [kind |-> "ok", usage |-> reply.usage,
               content |-> Some([letter |-> Val(reply.content)])]
         ELSE [kind |-> "schemaFail", usage |-> reply.usage, content |-> NULL],
    GEMINI_3_FLASH)

RecognizeRequests == {"unreadable", "missingFile", "invalidBody", "blob", "base64"}

errorResponse(status, message) ==
  [status |-> status, success |-> FALSE, letter |-> <<"?">>, error |-> Some(message)]

\* Lines 253-265: result.content?.letter ?? '?'
recognizeResponse(result) ==
  [status  |-> 200,
   success |-> result.ok,
   letter  |-> IF IsNull(result.content) THEN <<"?">> ELSE Val(result.content).letter,
   error   |-> result.error]

\* Lines 172-250: the request is read and checked, the agent is called.
RecognizePost ==
  /\ ~IsNull(recog)
  /\ recog.pc = "start"
  /\ recog' =
       CASE recog.request = "unreadable" ->
              [recog EXCEPT !.pc = "done",
                            !.response = Some(errorResponse(500, "Internal server error"))]
         [] recog.request = "missingFile" ->
              [recog EXCEPT !.pc = "done",
                            !.response = Some(errorResponse(400, "Missing image file"))]
         [] recog.request = "invalidBody" ->
              [recog EXCEPT !.pc = "done",
                            !.response = Some(errorResponse(400, "Invalid request"))]
         [] OTHER ->
              IF recog.hasApiKey
              THEN [recog EXCEPT !.pc = "awaitAgent"]
              ELSE [recog EXCEPT !.pc = "done",
                                 !.response = Some(errorResponse(500, "Internal server error"))]
  /\ UNCHANGED <<graphVars, scoreVars, annVars, agent, pipe, conc>>

\* Lines 248-278: the agent has returned, the response is built.
RecognitionReturns ==
  /\ ~IsNull(recog)
  /\ recog.pc = "awaitAgent"
  /\ \E reply \in RecognitionReplies :
       LET result == RecognitionAgentRun(reply)
       IN  recog' = [recog EXCEPT !.pc = "done",
                                  !.result = Some(result),
                                  !.response = Some(recognizeResponse(result))]
  /\ UNCHANGED <<graphVars, scoreVars, annVars, agent, pipe, conc>>

InitRecognize ==
  /\ idleGraph
  /\ idleScore
  /\ idleAnn
  /\ agent = NULL
  /\ pipe = NULL
  /\ conc = NULL
  /\ recog \in [pc : {"start"}, request : RecognizeRequests, hasApiKey : BOOLEAN,
                 result : {NULL}, response : {NULL}]

NextRecognize ==
  \/ RecognizePost
  \/ RecognitionReturns

SpecRecognize == InitRecognize /\ [][NextRecognize]_vars

(***************************************************************************)
(* The two agent implementations side by side: a BaseAgent.run or a        *)
(* RecognitionAgent.run (through the recognize route) from start to end.   *)
(***************************************************************************)
InitEnvelopes == InitAgent \/ InitRecognize

NextEnvelopes == AgentStart \/ GenerateSettles \/ RecognizePost \/ RecognitionReturns

SpecEnvelopes == InitEnvelopes /\ [][NextEnvelopes]_vars

(***************************************************************************)
(* GamePipeline.runValidation, src/lib/gemini/rest-client.ts lines         *)
(* 179-250, around ValidationGraph.run.  The graph mutates and returns the *)
(* session object it is given, so the pipeline's sessionState and          *)
(* updatedState are both the variable state.                               *)
(***************************************************************************)
InOperatorError == "Cannot use 'in' operator to search for 'sessionDurationMs' in null"

ToFixedError == "Cannot read properties of undefined (reading 'toFixed')"

RECURSIVE printEntries(_, _)
\* The loop of printCostSummary (cost-tracking.ts lines 106-120) from entry i on:
\* null when every entry is printed, else the message of the TypeError raised.
printEntries(ledger, i) ==
  IF i > Len(ledger) THEN NULL
  ELSE LET meta == ledger[i].meta IN
       IF meta = JsonNull THEN Some(InOperatorError)
       ELSE IF "sessionDurationMs" \in DOMAIN meta
            THEN IF "estimatedCost" \in DOMAIN meta THEN printEntries(ledger, i + 1)
                 ELSE Some(ToFixedError)
            ELSE IF "cost" \in DOMAIN meta THEN printEntries(ledger, i + 1)
                 ELSE Some(ToFixedError)

printCostSummary(s) == printEntries(s.costTracking, 1)

pipelineCatch_KeepsStatus(s, message) == [s EXCEPT !.error = Some(message)]

\* Lines 237-249: sessionState.error = errorMessage; sessionState.status = 'error'
pipelineCatch(s, message) == failWith(s, message)

\* Line 234: updatedState.status === 'complete'
pipelineSuccess(s) == s.status = "complete"

\* Lines 183-209: the output directory is set and the graph is started.
PipelineStart ==
  /\ ~IsNull(pipe)
  /\ pipe.pc = "start"
  /\ pc = "notCalled"
  /\ pc' = "start"
  /\ pipe' = [pipe EXCEPT !.pc = "awaitGraph"]
  /\ UNCHANGED <<variant, state, input, locals, calls, escaped, scoreVars, annVars,
                 agent, recog, conc>>

\* Lines 209-249: the graph has returned; the summary is printed, the result built.
PipelineReturns ==
  /\ ~IsNull(pipe)
  /\ pipe.pc = "awaitGraph"
  /\ pc = "done"
  /\ LET thrown == IF escaped THEN Some("validation graph threw") ELSE printCostSummary(state)
     IN  IF IsNull(thrown)
         THEN /\ pipe' = [pipe EXCEPT !.pc = "done", !.graphStatus = Some(state.status),
                                       !.success = Some(pipelineSuccess(state))]
              /\ state' = state
         ELSE /\ pipe' = [pipe EXCEPT !.pc = "done", !.graphStatus = Some(state.status),
                                       !.success = Some(FALSE), !.error = thrown]
              /\ state' = pipelineCatch(state, Val(thrown))
  /\ UNCHANGED <<variant, pc, input, locals, calls, escaped, scoreVars, annVars,
                 agent, recog, conc>>

InitPipeline ==
  /\ variant \in Variants
  /\ pc = "notCalled"
  /\ state \in InputSessions
  /\ input = state
  /\ locals = noLocals
  /\ calls = <<>>
  /\ escaped = FALSE
  /\ idleScore
  /\ idleAnn
  /\ agent = NULL
  /\ recog = NULL
  /\ conc = NULL
  /\ pipe = [pc |-> "start", graphStatus |-> NULL, success |-> NULL, error |-> NULL]

NextPipeline ==
  \/ PipelineStart
  \/ Start
  \/ ValidationFeedbackReturns
  \/ ValidationReturns
  \/ ScoringReturns
  \/ FeedbackReturns
  \/ ParallelValidationReturns
  \/ ScoringSettles
  \/ FeedbackSettles
  \/ ParallelJoin
  \/ PipelineReturns

SpecPipeline == InitPipeline /\ [][NextPipeline]_vars

(***************************************************************************)
(* Two POST validate requests served at once by one Node process.  Each    *)
(* request parses its body into a session object, builds its own           *)
(* GamePipeline (and with it a graph, an agent and a client, none of which *)
(* is written after construction) and runs the consolidated graph on the   *)
(* object.  What the two share is the event loop and, in development, the  *)
(* output directory the agents log to.                                     *)
(***************************************************************************)
Requests == {1, 2}

sessionIdOf(r) == IF r = 1 THEN "s1" ELSE "s2"

sessionObject_Shared(r) == 1

\* parsed.data.session: the object a request's body was parsed into, its own
sessionObject(r) == r

ConcLedgers ==
  { << [key |-> "live_stream_0", meta |-> streamEstimate] >>,
    << [key |-> "client_note", meta |-> [model |-> "none"]] >> }

ConcBodies(r) ==
  { [s EXCEPT !.sessionId = sessionIdOf(r)]
    : s \in { x \in InputSessions :
                /\ x.status = "validating"
                /\ x.durationMs = 1500
                /\ x.finalTranscription # Some(<<>>)
                /\ x.costTracking \in ConcLedgers } }

\* Lines 211-249 of runValidation: the summary is printed, and if anything
\* threw the catch marks the session.
pipelineFinish(s, graphThrew) ==
  LET thrown == IF graphThrew THEN Some("validation graph threw") ELSE printCostSummary(s)
  IN  IF IsNull(thrown) THEN s ELSE pipelineCatch(s, Val(thrown))

\* route.ts 20-53, runValidation 183-209, run 34-82: up to the agent's call.
ConcPost(r) ==
  /\ ~IsNull(conc)
  /\ conc.runs[r].pc = "request"
  /\ LET body   == conc.runs[r].body
         failed == isFalsy(body.finalTranscription)
         s0     == IF failed THEN failWith(body, "No transcription to validate")
                   ELSE [body EXCEPT !.status = "validating"]
     IN  conc' = [conc EXCEPT
                    !.heap[sessionObject(r)] = Some(s0),
                    !.runs[r].pc = IF failed THEN "graphDone" ELSE "awaitAgent",
                    !.logs = IF failed THEN @ ELSE saveLog(@, conc.outputDir, FALSE, "input")]
  /\ UNCHANGED <<graphVars, scoreVars, annVars, agent, recog, pipe>>

\* run 83-138: the agent of request r has returned.
ConcAgentReturns(r) ==
  /\ ~IsNull(conc)
  /\ conc.runs[r].pc = "awaitAgent"
  /\ \E reply \in ClientReplies(ValidationFeedbackOutputs) :
       LET env == BaseAgentRun(reply)
           cur == Val(conc.heap[sessionObject(r)])
           out == afterValidationFeedback(recordCost(cur, "validation_feedback_0", env), env)
       IN  conc' = [conc EXCEPT
                      !.heap[sessionObject(r)] = Some(out.state),
                      !.runs[r].pc = "graphDone",
                      !.runs[r].env = Some(env),
                      !.runs[r].escaped = out.escaped,
                      !.logs = saveLog(@, conc.outputDir, FALSE,
                                       logName(IF env.ok THEN "ok" ELSE "error"))]
  /\ UNCHANGED <<graphVars, scoreVars, annVars, agent, recog, pipe>>

\* runValidation 209-249, route.ts 56-90: the graph has returned; the response.
ConcPipelineReturns(r) ==
  /\ ~IsNull(conc)
  /\ conc.runs[r].pc = "graphDone"
  /\ LET final == pipelineFinish(Val(conc.heap[sessionObject(r)]), conc.runs[r].escaped)
     IN  conc' = [conc EXCEPT
                    !.heap[sessionObject(r)] = Some(final),
                    !.runs[r].pc = "responded",
                    !.runs[r].returned = Some(final)]
  /\ UNCHANGED <<graphVars, scoreVars, annVars, agent, recog, pipe>>

InitConcurrent ==
  /\ idleGraph
  /\ idleScore
  /\ idleAnn
  /\ agent = NULL
  /\ recog = NULL
  /\ pipe = NULL
  /\ \E b1 \in ConcBodies(1), b2 \in ConcBodies(2), dir \in OutputDirs :
       conc = [heap      |-> [o \in Requests |-> NULL],
               runs      |-> [r \in Requests |->
                                [pc |-> "request", body |-> IF r = 1 THEN b1 ELSE b2,
                                 env |-> NULL, escaped |-> FALSE, returned |-> NULL]],
               outputDir |-> dir,
               logs      |-> <<>>]

NextConcurrent ==
  \E r \in Requests : ConcPost(r) \/ ConcAgentReturns(r) \/ ConcPipelineReturns(r)

SpecConcurrent == InitConcurrent /\ [][NextConcurrent]_vars

(***************************************************************************)
(* Properties.                                                             *)
(***************************************************************************)
Blank(transcription) == transcription \in {NULL, Some(<<>>)}

Returned == pc = "done"

\* n is num/den rounded to the nearest integer, halves upwards.
IsRounded(n, num, den) == den * (2 * n - 1) <= 2 * num /\ 2 * num < den * (2 * n + 1)

RECURSIVE SumOver(_, _)
\* The sum of f[i] over the indices i in idx, taken in no particular order.
SumOver(f, idx) ==
  IF idx = {} THEN 0
  ELSE LET i == CHOOSE j \in idx : TRUE
       IN  f[i] + SumOver(f, idx \ {i})

\* What an entry of the ledger costs: a model-call record's cost, a streaming
\* estimate's estimatedCost.
entryCost(m) ==
  IF "cost" \in DOMAIN m THEN m.cost
  ELSE IF "estimatedCost" \in DOMAIN m THEN m.estimatedCost ELSE 0

entryInputTokens(m) ==
  IF "inputTokens" \in DOMAIN m THEN m.inputTokens
  ELSE IF "estimatedInputTokens" \in DOMAIN m THEN m.estimatedInputTokens ELSE 0

entryOutputTokens(m) ==
  IF "outputTokens" \in DOMAIN m THEN m.outputTokens
  ELSE IF "estimatedOutputTokens" \in DOMAIN m THEN m.estimatedOutputTokens ELSE 0

TotalsAreLedgerSums(s) ==
  LET idx == 1..Len(s.costTracking)
      l   == s.costTracking
  IN  /\ s.totalCost = SumOver([i \in idx |-> entryCost(l[i].meta)], idx)
      /\ s.totalInputTokens = SumOver([i \in idx |-> entryInputTokens(l[i].meta)], idx)
      /\ s.totalOutputTokens = SumOver([i \in idx |-> entryOutputTokens(l[i].meta)], idx)

\* C1: a run on a session whose finalTranscription is null or the empty string
\* never reaches an agent call; it returns with status error and the error
\* "No transcription to validate", and the cost ledger and totals are those of
\* the session handed in.
C1_NoTranscriptionAborts ==
  (pc # "idle" /\ Blank(input.finalTranscription)) =>
    /\ pc \in {"start", "done"}
    /\ calls = <<>>
    /\ Returned =>
         /\ state.status = "error"
         /\ state.error = Some("No transcription to validate")
         /\ state.costTracking = input.costTracking
         /\ state.totalCost = input.totalCost

C1_Witness ==
  /\ Returned
  /\ input.finalTranscription = Some(<<>>)
  /\ Len(input.costTracking) > 0
  /\ state.status = "error"

\* C2: no exception escapes run; the state it returns has status complete or
\* error, and with status error the error field holds a message.
C2_RunNeverThrows ==
  /\ ~escaped
  /\ Returned =>
       /\ state.status \in {"complete", "error"}
       /\ state.status = "error" => ~IsNull(state.error)

\* A run in which aggregateCosts threw and the catch block took over.
C2_Witness ==
  /\ Returned
  /\ state.status = "error"
  /\ state.error = Some(NullEntryError)
  /\ Len(calls) > 0

\* C3: in the consolidated graph, once the guard has passed, the agent's metadata
\* is in the ledger under validation_feedback_0 whether the call succeeded or not;
\* if the agent returned ok:false the run ends with status error and the agent's
\* error message, makes no further call, and writes neither scoringResult nor score.
C3_ValidationFailureIsFatal ==
  (Returned /\ variant = "consolidated" /\ ~Blank(input.finalTranscription)) =>
    LET env == Val(locals.validationResult) IN
    /\ HasKey(state.costTracking, "validation_feedback_0")
    /\ Lookup(state.costTracking, "validation_feedback_0") = env.metadata
    /\ ~env.ok =>
         /\ state.status = "error"
         /\ state.error = env.error
         /\ Len(calls) = 1
         /\ state.scoringResult = input.scoringResult
         /\ state.score = input.score

\* A failed call that cost money: its metadata is in the ledger.
C3_Witness ==
  /\ Returned
  /\ variant = "consolidated"
  /\ ~IsNull(locals.validationResult)
  /\ ~Val(locals.validationResult).ok
  /\ Val(locals.validationResult).metadata.cost > 0
  /\ IsNull(state.score)

\* C4 (as claimed): in every state of a run, and in the state it returns, score is
\* non-null only when status is complete, and a score that is set is the score of
\* the scoring result or the matchPercentage of the validation result.
C4_ScoreOnlyWhenComplete ==
  (pc # "idle" /\ ~IsNull(state.score)) =>
    /\ state.status = "complete"
    /\ \/ /\ ~IsNull(state.scoringResult)
          /\ Val(state.score) = Val(state.scoringResult).score
       \/ /\ ~IsNull(state.validationResult)
          /\ Val(state.score) = Val(state.validationResult).matchPercentage

\* C5 (as claimed): after a run that ends with status complete, the totals are the
\* sums over every entry of the ledger, a streaming estimate such as live_stream_0
\* included, whatever the order of summation.
C5_CompleteTotalsAreLedgerSums ==
  (Returned /\ state.status = "complete") => TotalsAreLedgerSums(state)

\* C6 (as claimed): in every state run returns, a run that ended in error after the
\* agent's metadata was written included, the totals are the sums over all entries
\* of the ledger.
C6_ReturnedTotalsAreLedgerSums ==
  Returned => TotalsAreLedgerSums(state)

\* C7: computeDeterministicScore gives accuracy = round(matchPercentage),
\* clarity = min(100, max(30, round(0.8 * matchPercentage + 20))) and
\* score = round(0.6 * accuracy + 0.2 * speed + 0.2 * clarity), all whole numbers;
\* matchPercentage 100 with durationMs 1500 scores 100.
C7_DeterministicScoreFormula ==
  ~IsNull(fnResult) =>
    LET mp == Val(fnArgs).validation.matchPercentage
        r  == Val(fnResult)
        a  == r.breakdown.accuracy \div Scale
        sp == r.breakdown.speed \div Scale
        c  == r.breakdown.clarity \div Scale
        sc == r.score \div Scale
    IN  /\ IsWhole(r.breakdown.accuracy) /\ IsWhole(r.breakdown.speed)
        /\ IsWhole(r.breakdown.clarity) /\ IsWhole(r.score)
        /\ IsRounded(a, mp, Scale)
        /\ \E raw \in 0..200 :
             /\ IsRounded(raw, 8 * mp + 200 * Scale, 10 * Scale)
             /\ c = Min(100, Max(30, raw))
        /\ IsRounded(sc, 6 * a + 2 * sp + 2 * c, 10)
        /\ (mp = Whole(100) /\ Val(fnArgs).durationMs = 1500) => sc = 100

\* A fractional matchPercentage (x.5), which rounds up.
C7_Witness ==
  /\ ~IsNull(fnResult)
  /\ Val(fnArgs).validation.matchPercentage = Whole(87) + 1
  /\ Val(fnArgs).durationMs = 1500
  /\ Val(fnResult).breakdown.accuracy = Whole(IF Scale = 2 THEN 88 ELSE 87)

\* C8: the speed sub-score is 100 below 2000 ms, 80 from 2000 ms, 60 from 5000 ms
\* and 40 from 10000 ms on, whatever the matchPercentage.
C8_SpeedStepFunction ==
  ~IsNull(fnResult) =>
    LET d == Val(fnArgs).durationMs IN
    Val(fnResult).breakdown.speed =
      Whole(CASE d < 2000 -> 100
              [] 2000 <= d /\ d < 5000 -> 80
              [] 5000 <= d /\ d < 10000 -> 60
              [] d >= 10000 -> 40)

C8_Witness ==
  /\ ~IsNull(fnResult)
  /\ Val(fnArgs).durationMs = 10000
  /\ Val(fnArgs).validation.matchPercentage = Whole(100)
  /\ Val(fnResult).breakdown.speed = Whole(40)

InRange(x) == 0 <= x /\ x <= Whole(100)

\* C9 (as claimed): after a completed run whose validation has matchPercentage in
\* [0, 100] and whose durationMs is not negative, the score and, when there is a
\* scoring result, each part of its breakdown is a whole number in 0..100.
C9_ScoreIsWholeInRange ==
  (/\ Returned
   /\ state.status = "complete"
   /\ InRange(Val(state.validationResult).matchPercentage)
   /\ state.durationMs >= 0) =>
    /\ IsWhole(Val(state.score)) /\ InRange(Val(state.score))
    /\ ~IsNull(state.scoringResult) =>
         LET b == Val(state.scoringResult).breakdown IN
         /\ IsWhole(b.accuracy) /\ InRange(b.accuracy)
         /\ IsWhole(b.speed) /\ InRange(b.speed)
         /\ IsWhole(b.clarity) /\ InRange(b.clarity)

\* C10: for a transcription without '?', getScenario returns exactly one of crash,
\* delayed, safe: crash iff matchPercentage < 30, safe iff matchPercentage >= 100,
\* delayed otherwise; so 29 is crash, 30 is delayed, 100 is safe.
C10_ScenarioBands ==
  (~IsNull(annScenario) /\ ~includes(Val(annInput).transcription, "?")) =>
    LET mp == Val(annInput).matchPercentage
        sc == Val(annScenario)
    IN  /\ sc \in {"crash", "delayed", "safe"}
        /\ sc = "crash" <=> mp < Whole(30)
        /\ sc = "safe" <=> mp >= Whole(100)
        /\ sc = "delayed" <=> (Whole(30) <= mp /\ mp < Whole(100))
        /\ mp = Whole(29) => sc = "crash"
        /\ mp = Whole(30) => sc = "delayed"
        /\ mp = Whole(100) => sc = "safe"

C10_Witness ==
  /\ ~IsNull(annScenario)
  /\ Val(annInput).transcription = <<"B", "Y", "S">>
  /\ Val(annInput).matchPercentage = Whole(30)
  /\ Val(annScenario) = "delayed"

\* C11: a transcription that contains '?' is classified crash whatever the
\* matchPercentage, 100 included: the marker is tested before the bands.
C11_MarkerMeansCrash ==
  (~IsNull(annScenario) /\ includes(Val(annInput).transcription, "?")) =>
    Val(annScenario) = "crash"

C11_Witness ==
  /\ ~IsNull(annScenario)
  /\ Val(annInput).transcription = <<"B", "?", "S">>
  /\ Val(annInput).matchPercentage = Whole(100)
  /\ Val(annScenario) = "crash"

AnnDone == ~IsNull(ann) /\ ann.pc = "done"

\* The calls run makes when the phonetic agent is needed, and when it is not.
AnnCallPlan(scenario) ==
  IF scenario = "delayed" THEN <<"phonetic_agent", "generateAudio">> ELSE <<"generateAudio">>

IsPrefix(p, q) == Len(p) <= Len(q) /\ \A i \in 1..Len(p) : p[i] = q[i]

\* C12: a run calls the phonetic agent if and only if the scenario is delayed, and
\* the agent has returned before the audio call is made; for crash and safe the
\* audio call is the first call; a run that has ended has made exactly one audio
\* call.
C12_PhoneticOnlyWhenDelayed ==
  (~IsNull(ann) /\ ~IsNull(annScenario)) =>
    LET plan == AnnCallPlan(Val(annScenario)) IN
    /\ IsPrefix(ann.calls, plan)
    /\ ann.pc = "awaitPhonetic" => ann.calls = <<"phonetic_agent">>
    /\ ann.pc \in {"awaitAudio", "done"} => ann.calls = plan
    /\ (Val(annScenario) = "delayed" /\ ann.calls = plan) => ~IsNull(ann.phoneticResult)
    /\ Val(annScenario) # "delayed" => IsNull(ann.phoneticResult)

C12_Witness ==
  /\ AnnDone
  /\ Val(annScenario) = "delayed"
  /\ ann.calls = <<"phonetic_agent", "generateAudio">>
  /\ ~IsNull(ann.output)

\* C13 (as claimed): when the phonetic agent returns ok:false in the delayed
\* scenario, the run makes the audio call and returns a result whose scenario is
\* delayed and whose phonetic value is the transcription it was given.
C13_PhoneticFailureFallsBack ==
  (AnnDone /\ ~IsNull(ann.phoneticResult) /\ ~Val(ann.phoneticResult).ok) =>
    /\ ann.calls = <<"phonetic_agent", "generateAudio">>
    /\ ~IsNull(ann.output)
    /\ Val(ann.output).scenario = "delayed"
    /\ Val(ann.output).phonetic = Some(Val(annInput).transcription)

\* C14 (as claimed): the totalCost of every result is the cost in the metadata
\* the phonetic agent returned, if it was called (0 if not), plus the audio cost.
C14_TotalCostIsPhoneticPlusAudio ==
  (AnnDone /\ ~IsNull(ann.output)) =>
    LET m == Val(ann.output).metrics
        phoneticAgentCost == IF IsNull(ann.phoneticResult) THEN 0
                             ELSE Val(ann.phoneticResult).metadata.cost
    IN  m.totalCost = phoneticAgentCost + m.ttsCost

\* C15 (as claimed): no exception leaves AnnouncementGraph.run; a run that has
\* ended has returned a value.
C15_AnnouncementNeverThrows ==
  ~IsNull(ann) => (~ann.escaped /\ (ann.pc = "done" => ~IsNull(ann.output)))

AgentDone == ~IsNull(agent) /\ agent.pc = "done"

IsEnvelope(r) ==
  /\ DOMAIN r = {"ok", "content", "error", "metadata"}
  /\ r.ok \in BOOLEAN
  /\ r.ok <=> ~IsNull(r.content)
  /\ r.ok <=> IsNull(r.error)
  /\ DOMAIN r.metadata = {"inputTokens", "outputTokens", "cost"}

\* C16: no exception leaves BaseAgent.run: whatever the client does (a text with
\* an accepted object, a text without JSON, with invalid JSON, with an object the
\* schema rejects, a rejection) and with or without an output directory, a run
\* that has ended has returned an envelope {ok, content, error?, metadata}.
C16_AgentNeverThrows ==
  ~IsNull(agent) =>
    /\ ~agent.escaped
    /\ agent.pc = "done" => (~IsNull(agent.result) /\ IsEnvelope(Val(agent.result)))

C16_Witness ==
  /\ AgentDone
  /\ agent.client.kind = "throw"
  /\ ~IsNull(agent.outputDir) /\ agent.fsFails
  /\ ~Val(agent.result).ok

\* C17: a completed call whose reply has no JSON, invalid JSON or an object the
\* schema rejects gives ok:false with the call's token counts and cost in the
\* metadata; a call that threw gives ok:false with zero tokens and zero cost.
C17_FailureMetadata ==
  AgentDone =>
    LET r == Val(agent.result)
        c == agent.client
        used == [kind |-> "text", usage |-> c.usage, content |-> NULL]
    IN  /\ c.kind = "throw" =>
             /\ ~r.ok
             /\ r.metadata.inputTokens = 0 /\ r.metadata.outputTokens = 0
             /\ r.metadata.cost = 0
        /\ (c.kind = "text" /\ (IsNull(jsonMatch(c.text))
                                 \/ IsNull(JSONparse(Val(jsonMatch(c.text))))
                                 \/ ~safeParse(Val(jsonMatch(c.text))))) =>
             /\ ~r.ok
             /\ r.metadata.inputTokens = promptTokens(used)
             /\ r.metadata.outputTokens = candidateTokens(used)
             /\ r.metadata.cost =
                  promptTokens(used) * PriceInput + candidateTokens(used) * PriceOutput

\* A schema failure on a call that reported its usage.
C17_Witness ==
  /\ AgentDone
  /\ agent.client.kind = "text"
  /\ agent.client.text = <<"{", "}">>
  /\ ~IsNull(agent.client.usage)
  /\ ~Val(agent.result).ok
  /\ Val(agent.result).metadata.cost > 0

\* text is some prose, then the object obj, then anything.
HasObjectAfterProse(text, obj) ==
  \E i \in 1..Len(text) :
    /\ \A k \in 1..(i - 1) : text[k] \notin {"{", "}"}
    /\ parseObject(text, i) # 0
    /\ obj = SubSeq(text, i, parseObject(text, i) - 1)

\* C18 (as claimed): for a reply made of prose, one well-formed JSON object and
\* any trailing text (braces or a second object included), run extracts that
\* object and parses it: the result is not a "No JSON" or "Invalid JSON" failure,
\* and the content of an ok result is the object.
C18_ExtractsFirstObject ==
  (AgentDone /\ agent.client.kind = "text") =>
    \A obj \in {SubSeq(agent.client.text, i, j) : i, j \in 1..Len(agent.client.text)} :
      HasObjectAfterProse(agent.client.text, obj) =>
        LET r == Val(agent.result) IN
        /\ r.error \notin {Some("No JSON in response"), Some("Invalid JSON in response")}
        /\ r.ok => r.content = Some(obj)
        /\ r.ok <=> safeParse(obj)

\* One character, an uppercase letter or the sentinel '?'.
IsLetterOrSentinel(letter) == Len(letter) = 1 /\ letter[1] \in UpperSet \cup {"?"}

\* C19 (as claimed): the letter of every ok result of the recognition agent, and
\* the letter of every POST recognize response (success, agent failure, bad
\* request, internal error), is one character: an uppercase A-Z or '?'.
C19_LetterIsUppercaseOrSentinel ==
  ~IsNull(recog) =>
    /\ (~IsNull(recog.result) /\ Val(recog.result).ok) =>
         IsLetterOrSentinel(Val(Val(recog.result).content).letter)
    /\ ~IsNull(recog.response) => IsLetterOrSentinel(Val(recog.response).letter)

PipelineDone == ~IsNull(pipe) /\ pipe.pc = "done"

HasNullEntry(ledger) == \E i \in 1..Len(ledger) : ledger[i].meta = JsonNull

\* A returned 3-agent run whose validation succeeded: both other results are in.
ThreeAgentDone ==
  /\ Returned
  /\ variant \in {"serial", "parallel"}
  /\ ~IsNull(locals.validationResult)
  /\ Val(locals.validationResult).ok
  /\ ~IsNull(locals.scoringResult)
  /\ ~IsNull(locals.feedbackResult)

\* What a failed scoring or feedback agent leaves behind in a returned 3-agent run.
DegradedResults ==
  LET validation == Val(Val(locals.validationResult).content)
  IN  /\ ~Val(locals.scoringResult).ok =>
           /\ state.score = Some(validation.matchPercentage)
           /\ state.scoringResult = input.scoringResult
      /\ ~Val(locals.feedbackResult).ok =>
           state.feedbackResult = input.feedbackResult

BothResolved == ~IsNull(locals.scoringPromise) /\ ~IsNull(locals.feedbackPromise)

SameEntry(ledger, other, key) ==
  /\ HasKey(ledger, key) <=> HasKey(other, key)
  /\ HasKey(ledger, key) => Lookup(ledger, key) = Lookup(other, key)

CallsTo(name) == {i \in 1..Len(calls) : calls[i].agent = name}

\* C22: in the parallel 3-agent graph the scoring and feedback calls start
\* only once the validation agent has returned ok, both at that step; until
\* both have resolved run has read neither result, the ledger's scoring_0 and
\* feedback_0 are as handed in and status is still validating; and the state
\* returned is fixed by the two results, whichever resolved first.
C22_JoinBarrier ==
  variant = "parallel" =>
    /\ (CallsTo("scoring_agent") # {} \/ CallsTo("feedback_agent") # {}) =>
         /\ ~IsNull(locals.validationResult)
         /\ Val(locals.validationResult).ok
         /\ Cardinality(CallsTo("scoring_agent")) = 1
         /\ Cardinality(CallsTo("feedback_agent")) = 1
    /\ (pc = "awaitBoth" \/ ~BothResolved) =>
         /\ IsNull(locals.scoringResult)
         /\ IsNull(locals.feedbackResult)
         /\ SameEntry(state.costTracking, input.costTracking, "scoring_0")
         /\ SameEntry(state.costTracking, input.costTracking, "feedback_0")
         /\ pc # "start" => state.status # "complete"
         /\ state.scoringResult = input.scoringResult
         /\ state.feedbackResult = input.feedbackResult
    /\ (pc = "done" /\ CallsTo("scoring_agent") # {}) =>
         LET scoring    == Val(locals.scoringPromise)
             feedback   == Val(locals.feedbackPromise)
             validation == Val(Val(locals.validationResult).content)
         IN  /\ BothResolved
             /\ locals.scoringResult = Some(scoring)
             /\ locals.feedbackResult = Some(feedback)
             /\ Lookup(state.costTracking, "scoring_0") = scoring.metadata
             /\ Lookup(state.costTracking, "feedback_0") = feedback.metadata
             /\ state.score = IF scoring.ok THEN Some(Val(scoring.content).score)
                              ELSE Some(validation.matchPercentage)
             /\ state.scoringResult = IF scoring.ok THEN scoring.content
                                      ELSE input.scoringResult
             /\ state.feedbackResult = IF feedback.ok THEN feedback.content
                                       ELSE input.feedbackResult
             /\ state.validationResult = Some(validation)

\* The feedback agent resolved first and the run has returned complete.
C22_Witness ==
  /\ variant = "parallel"
  /\ pc = "done"
  /\ locals.settled = <<"feedback", "scoring">>
  /\ state.status = "complete"
  /\ Val(locals.scoringPromise).ok
  /\ Val(locals.feedbackPromise).ok

\* SessionStatusSchema, in lifecycle order; error stands apart.
SessionStatusOrder ==
  <<"initialized", "connecting", "streaming", "recognizing", "validating", "complete">>

StatusRank(status) == CHOOSE i \in 1..Len(SessionStatusOrder) : SessionStatusOrder[i] = status

MovesForward(from, to) ==
  \/ to = "error"
  \/ from # "error" /\ StatusRank(to) >= StatusRank(from)

\* C23: every step of a validation-graph run leaves the session's status
\* where it was, moves it forward along initialized -> connecting -> streaming
\* -> recognizing -> validating -> complete, or moves it to error; a session in
\* complete or error never goes back to an earlier status.
C23_StatusOnlyMovesForward == [][MovesForward(state.status, state'.status)]_vars

ValidationOk == ~IsNull(locals.validationResult) /\ Val(locals.validationResult).ok

\* C24: in a validation-graph run every call is given the normalized words,
\* the first call is the validation call, the scoring and feedback calls (and
\* the deterministic scoring result) exist only once the validation agent has
\* returned ok, the serial feedback call only once the scoring result is in,
\* and the consolidated variant makes exactly one call when the guard passes
\* and none when it does not.
C24_StepsInOrder ==
  /\ \A i \in 1..Len(calls) :
       /\ calls[i].expectedWord = normalizePracticeWord(input.expectedWord)
       /\ calls[i].transcription = normalizePracticeWord(Val(input.finalTranscription))
  /\ Len(calls) >= 1 => calls[1].agent = validationAgentName(variant)
  /\ Len(calls) >= 2 =>
       /\ variant # "consolidated"
       /\ ValidationOk
       /\ calls[2].agent = "scoring_agent"
  /\ Len(calls) >= 3 =>
       /\ calls[3].agent = "feedback_agent"
       /\ variant = "serial" => ~IsNull(locals.scoringResult)
  /\ Len(calls) <= 3
  /\ state.scoringResult # input.scoringResult => ValidationOk
  /\ state.feedbackResult # input.feedbackResult => ValidationOk
  /\ (variant = "consolidated" /\ pc # "start") =>
       Len(calls) = IF isFalsy(input.finalTranscription) THEN 0 ELSE 1

C24_Witness ==
  /\ variant = "serial"
  /\ pc = "done"
  /\ Len(calls) = 3
  /\ calls[1].transcription = <<"h", "e">>
  /\ state.status = "complete"

\* C25: normalizing words that are already normalized changes nothing.
C25_NormalizeIdempotent ==
  Len(fnResult) = 2 => fnResult[2] = fnResult[1]

C25_Witness ==
  /\ Len(fnResult) = 2
  /\ Val(fnArgs).finalTranscription = <<"A", " ", "U+0130">>
  /\ fnResult[2].finalTranscription = <<"a", "i">>

\* The a-z letter a code unit contributes once lowercased, if any.
LetterOf(ch) ==
  IF ch \in {LowerCaseLetters[i] : i \in 1..26} THEN <<ch>>
  ELSE IF ch \in {UpperCaseLetters[i] : i \in 1..26}
  THEN <<LowerCaseLetters[CHOOSE i \in 1..26 : UpperCaseLetters[i] = ch]>>
  ELSE IF ch = "U+212A" THEN <<"k">>
  ELSE IF ch = "U+0130" THEN <<"i">>
  ELSE <<>>

RECURSIVE LettersInOrder(_)
LettersInOrder(word) ==
  IF word = <<>> THEN <<>> ELSE LetterOf(Head(word)) \o LettersInOrder(Tail(word))

\* C26: normalizePracticeWord returns, for every word, a string of a-z only,
\* the lowercased letters of the word in order with everything else removed;
\* "Tai Seng" and "taiseng" normalize to the same string; run normalizes both
\* the expected word and the transcription.
C26_NormalizeLettersOnly ==
  Len(fnResult) >= 1 =>
    LET words == Val(fnArgs)
        r     == fnResult[1]
    IN  /\ r.expectedWord \in Seq({LowerCaseLetters[i] : i \in 1..26})
        /\ r.finalTranscription \in Seq({LowerCaseLetters[i] : i \in 1..26})
        /\ r.expectedWord = LettersInOrder(words.expectedWord)
        /\ r.finalTranscription = LettersInOrder(words.finalTranscription)
        /\ (words.expectedWord = TaiSeng
             /\ words.finalTranscription = <<"t", "a", "i", "s", "e", "n", "g">>)
             => r.expectedWord = r.finalTranscription

C26_Witness ==
  /\ Len(fnResult) >= 1
  /\ Val(fnArgs).expectedWord = TaiSeng
  /\ Val(fnArgs).finalTranscription = <<"t", "a", "i", "s", "e", "n", "g">>
  /\ fnResult[1].expectedWord = <<"t", "a", "i", "s", "e", "n", "g">>
  /\ fnResult[1].finalTranscription = <<"t", "a", "i", "s", "e", "n", "g">>

\* What the pipeline returns for a body served with no other request in progress.
runAlone(body, env) ==
  IF isFalsy(body.finalTranscription)
  THEN pipelineFinish(failWith(body, "No transcription to validate"), FALSE)
  ELSE LET s0  == [body EXCEPT !.status = "validating"]
           out == afterValidationFeedback(
                    recordCost(s0, "validation_feedback_0", Val(env)), Val(env))
       IN  pipelineFinish(out.state, out.escaped)

\* C27: two pipeline runs for different session ids work on different
\* objects, and under every interleaving of their steps each returns the
\* state (status, score, results, ledger, totals) it would return alone.
C27_SessionsIndependent ==
  ~IsNull(conc) =>
    \A r \in Requests :
      /\ conc.runs[r].pc = "responded" =>
           /\ Val(conc.runs[r].returned) = runAlone(conc.runs[r].body, conc.runs[r].env)
           /\ Val(conc.runs[r].returned).sessionId = sessionIdOf(r)
      /\ conc.runs[r].pc = "awaitAgent" =>
           Val(conc.heap[sessionObject(r)]) = [conc.runs[r].body EXCEPT !.status = "validating"]

\* Request 2's agent failed before request 1's succeeded; both have responded.
C27_Witness ==
  /\ ~IsNull(conc)
  /\ conc.runs[1].pc = "responded"
  /\ conc.runs[2].pc = "responded"
  /\ conc.logs = <<"input", "input", "error", "output">>
  /\ ~Val(conc.runs[2].env).ok
  /\ Val(conc.runs[1].returned).status = "complete"
  /\ Val(conc.runs[2].returned).status = "error"
  /\ Val(conc.runs[1].returned).costTracking # Val(conc.runs[2].returned).costTracking

\* C28: a consolidated run that has returned with status = complete carries a
\* validation, a feedback and a scoring result, score = scoringResult.score,
\* and no error.
C28_CompleteIsConsistent ==
  (Returned /\ variant = "consolidated" /\ state.status = "complete") =>
    /\ ~IsNull(state.validationResult)
    /\ ~IsNull(state.feedbackResult)
    /\ ~IsNull(state.scoringResult)
    /\ state.score = Some(Val(state.scoringResult).score)
    /\ IsNull(state.error)

\* The envelopes returned so far by either agent implementation.
ReturnedEnvelopes ==
  (IF ~IsNull(agent) /\ agent.pc = "done" /\ ~IsNull(agent.result)
   THEN {Val(agent.result)} ELSE {})
  \cup
  (IF ~IsNull(recog) /\ ~IsNull(recog.result) THEN {Val(recog.result)} ELSE {})

\* C29: every envelope returned by BaseAgent.run or RecognitionAgent.run has
\* ok true exactly when content is non-null, no error when ok, an error with a
\* message when not ok, and metadata (token counts and cost) in every case.
C29_EnvelopeContract ==
  \A r \in ReturnedEnvelopes :
    /\ r.ok \in BOOLEAN
    /\ r.ok <=> ~IsNull(r.content)
    /\ r.ok => IsNull(r.error)
    /\ ~r.ok => (~IsNull(r.error) /\ Val(r.error) # "")
    /\ {"inputTokens", "outputTokens", "cost"} \subseteq DOMAIN r.metadata

\* The recognition agent's reply failed its schema: a failure envelope with
\* the call's metadata.
C29_Witness ==
  /\ ~IsNull(recog)
  /\ ~IsNull(recog.result)
  /\ ~Val(recog.result).ok
  /\ IsNull(Val(recog.result).content)
  /\ Val(recog.result).error = Some(errorMessage("schemaFail"))
  /\ Val(recog.result).metadata.inputTokens = 120

\* The ledger keys a variant of the graph writes.
OwnKeys(v) ==
  IF v = "consolidated" THEN {"validation_feedback_0"}
  ELSE {"validation_0", "scoring_0", "feedback_0"}

LedgerKeys(ledger) == {ledger[i].key : i \in 1..Len(ledger)}

\* C30: at every point of a validation-graph run, each ledger entry handed in
\* under a key that is not one of the graph's own is still there with the same
\* value, the only keys added are the graph's own, and sessionId, expectedWord,
\* level, finalTranscription and durationMs are as handed in.
C30_RunFrame ==
  /\ \A k \in LedgerKeys(input.costTracking) \ OwnKeys(variant) :
       /\ HasKey(state.costTracking, k)
       /\ Lookup(state.costTracking, k) = Lookup(input.costTracking, k)
  /\ LedgerKeys(state.costTracking) \subseteq
       LedgerKeys(input.costTracking) \cup OwnKeys(variant)
  /\ state.sessionId = input.sessionId
  /\ state.expectedWord = input.expectedWord
  /\ state.level = input.level
  /\ state.finalTranscription = input.finalTranscription
  /\ state.durationMs = input.durationMs

\* A completed consolidated run on a ledger that held the streaming estimate
\* and an earlier validation_feedback_0: the first kept, the second overwritten.
C30_Witness ==
  /\ Returned
  /\ variant = "consolidated"
  /\ state.status = "complete"
  /\ HasKey(input.costTracking, "live_stream_0")
  /\ HasKey(input.costTracking, "validation_feedback_0")
  /\ Lookup(input.costTracking, "live_stream_0") = streamEstimate
  /\ Lookup(state.costTracking, "live_stream_0") = streamEstimate
  /\ Lookup(state.costTracking, "validation_feedback_0")
       # Lookup(input.costTracking, "validation_feedback_0")
  /\ state.totalCost > 0

====
